---- MODULE Spec2Model ----
(***************************************************************************)
(* Model of the Queen Rose Hiking App poor-network layer:                  *)
(*   - PoorNetworkHandler (src/unnamed/part_000): the connection-quality   *)
(*     flags, the probe (checkConnectionQuality) and the smart fetch that  *)
(*     replaces window.fetch.                                              *)
(*   - NetworkStatusIndicator (src/js/weather_offline.js): the status the  *)
(*     page shows, driven by the connectivity events, a 5 s poll of the    *)
(*     handler's flag and timers.                                          *)
(* Every action is one task of the single-threaded event loop: a handler   *)
(* runs from the event that resumes it up to its next await.               *)
(***************************************************************************)
EXTENDS Naturals, FiniteSets, Sequences, TLC

\* ------------------------------------------------------------------ bounds
\* Number of application fetch calls in flight at once.
MaxCalls == 1
\* Number of checkConnectionQuality probes that may overlap.
MaxProbes == 1
\* Number of pending timers of the indicator, of each kind (initial-status
\* timers, hide timers).
MaxTimers == 2

\* --------------------------------------------------------------- constants
Null == "null"

\* Response values: a response read from the Cache Store, an OK network
\* response, a non-OK network response (response.ok false, e.g. 404/500).
Stale == "cached"
Fresh == "net_ok"
Bad == "net_not_ok"
NetResponses == {Fresh, Bad}

\* The rejection of the underlying transport ("TypeError: Failed to fetch"),
\* and the rejection an aborted request produces.
TransportErrors == {"TypeError"}
AbortError == "AbortError"

DataUrl == "/data.json"
ManifestUrl == "./manifest.json"
WeatherUrl == "https://api.open-meteo.com/v1/forecast"
AppUrls == {DataUrl, ManifestUrl}
CallUrls == {DataUrl, WeatherUrl}

\* navigator.connection.effectiveType values, and the handler's slow list.
EffectiveTypes == {"2g", "4g"}
slowConnections == {"slow-2g", "2g", "3g"}

\* Slots for the fetch calls of the application and for the probes.
AppCalls == 1..MaxCalls
ProbeCalls == (MaxCalls + 1)..(MaxCalls + MaxProbes)
Calls == AppCalls \cup ProbeCalls

VARIABLES
    isSlowConnection,   \* this.isSlowConnection
    cacheFirstMode,     \* this.cacheFirstMode
    onLine,             \* navigator.onLine
    connection,         \* navigator.connection.effectiveType, Null if the API is absent
    cache,              \* the named Cache Store: url -> entry or Null
    calls,              \* the invocations of fetch in flight, by slot
    offlineSignalled,   \* history: the last connectivity event was 'offline'
    forced,             \* history: enableCacheFirstMode() was called and
                        \* disableCacheFirstMode() not since
    indicator,          \* this.indicator: the element, Null until the
                        \* NetworkStatusIndicator is constructed
    currentStatus,      \* this.currentStatus
    isVisible,          \* this.isVisible
    initTimers,         \* pending 2000 ms timers of checkInitialStatus
    hideTimers,         \* pending 3000 ms hide timers, oldest first; TRUE
                        \* marks the timer of the publication now current
    superseded          \* history, kept by ProbeSpec only: the probes in
                        \* flight that are not the probe started last

handlerVars == <<isSlowConnection, cacheFirstMode, onLine, connection, cache,
                 calls, offlineSignalled, forced, superseded>>

indicatorVars == <<indicator, currentStatus, isVisible, initTimers, hideTimers>>

vars == <<isSlowConnection, cacheFirstMode, onLine, connection, cache, calls,
          offlineSignalled, forced, indicator, currentStatus, isVisible,
          initTimers, hideTimers, superseded>>

\* ------------------------------------------------------------ url matching
\* url.includes('open-meteo.com'), url.startsWith('http'),
\* url.includes('localhost') on the urls of the model.
IncludesOpenMeteo(url) == url \in {WeatherUrl}
StartsWithHttp(url) == url \in {WeatherUrl}
IncludesLocalhost(url) == url \in {}

\* Mutant of IsExternal: only absolute localhost urls pass through.
IsExternalLocalOnly(url) == StartsWithHttp(url) /\ IncludesLocalhost(url)

\* The test of line 123 (&& binds tighter than ||).
IsExternal(url) ==
    IncludesOpenMeteo(url) \/ (StartsWithHttp(url) /\ ~IncludesLocalhost(url))

\* ------------------------------------------------------------- call records
\* One invocation of fetch. owner: "app" (application code) or "probe"
\* (checkConnectionQuality, lines 89-92). pc: the await the invocation is at.
\* timer: its deadline timer. err: the error its catch block holds.
\* late: 1000 ms have passed since the probe's startTime (line 82).
\* History: netCalls counts the requests handed to the platform fetch; via
\* is the stage that settled the call, look2 what the fallback lookup met.
IdleCall ==
    [pc |-> "idle", url |-> Null, owner |-> "app", timer |-> "none",
     netCalls |-> 0, err |-> Null, outcome |-> "none", value |-> Null,
     via |-> "none", look2 |-> "none", late |-> FALSE]

\* return value / throw error out of the async function.
Return(r, resp) ==
    [r EXCEPT !.pc = "done", !.via = r.pc, !.outcome = "returned", !.value = resp]
Throw(r, e) ==
    [r EXCEPT !.pc = "done", !.via = r.pc, !.outcome = "threw", !.value = e]

\* Mutant of getCachedResponse: the store's error is handed on as the result.
getCachedResponseEscalates(url, readFails) ==
    IF readFails THEN "CacheError" ELSE cache[url]

\* getCachedResponse (lines 184-193): caches.open + cache.match; a failure of
\* either is caught and null returned. match gives undefined on a miss
\* (falsy like null).
getCachedResponse(url, readFails) ==
    IF readFails THEN Null ELSE cache[url]

\* What the lookup met: an entry, no entry, or a failing store.
LookupOutcome(url, readFails) ==
    IF readFails THEN "error" ELSE IF cache[url] = Null THEN "miss" ELSE "hit"

\* Lines 143-153: arm the deadline timer, issue originalFetch with the signal.
NetworkStage(r) ==
    [r EXCEPT !.pc = "network", !.timer = "armed", !.netCalls = @ + 1]

\* Line 180: originalFetch(resource, options) again, no signal, no timer.
LastResort(r) ==
    [r EXCEPT !.pc = "lastResort", !.netCalls = @ + 1]

\* Mutant of SmartFetch: the cache lookup comes first in every mode.
SmartFetchCacheAlways(url, owner, cfm, slow) ==
    LET r == [IdleCall EXCEPT !.url = url, !.owner = owner] IN
    IF IsExternal(url)
    THEN [r EXCEPT !.pc = "passthrough", !.netCalls = 1]
    ELSE [r EXCEPT !.pc = "cacheFirst"]

\* Lines 119-140, the synchronous part of the replaced fetch: pass external
\* urls through, else read the flags and start with the cache or the network.
SmartFetch(url, owner, cfm, slow) ==
    LET r == [IdleCall EXCEPT !.url = url, !.owner = owner] IN
    IF IsExternal(url)
    THEN [r EXCEPT !.pc = "passthrough", !.netCalls = 1]
    ELSE IF cfm \/ slow
         THEN [r EXCEPT !.pc = "cacheFirst"]
         ELSE NetworkStage(r)

\* Mutant of AfterCacheFirst: the hit is dropped and the network tried anyway.
AfterCacheFirstIgnoresHit(r, found) == NetworkStage(r)

\* Lines 132-140: the cache-first lookup completed with `found`.
AfterCacheFirst(r, found) ==
    IF found # Null THEN Return(r, found) ELSE NetworkStage(r)

\* Mutant of CacheAfterNetworkResponse: an OK response is put into the store.
CachePutOnSuccess(url, resp) ==
    IF resp = Fresh THEN [cache EXCEPT ![url] = resp] ELSE cache

\* What the engine does to the Cache Store when the timed request answers
\* (lines 155-160: nothing; there is no cache.put anywhere in the handler).
CacheAfterNetworkResponse(url, resp) == cache

\* Lines 155-160 and 180: the timed request answered.
OnNetworkResponse(r, resp) ==
    LET s == [r EXCEPT !.timer = "none"] IN
    IF resp = Fresh THEN Return(s, resp) ELSE LastResort(s)

\* Mutant of OnNetworkError: the rejection is rethrown without a fallback.
OnNetworkErrorNoFallback(r, e) == Throw([r EXCEPT !.err = e], e)

\* Lines 161-166: the timed request rejected; the catch block starts the
\* fallback lookup. clearTimeout (line 155) is not reached on this path.
OnNetworkError(r, e) ==
    [r EXCEPT !.pc = "fallback", !.err = e]

\* Mutant of AfterFallback: a miss throws a new error, not the caught one.
AfterFallbackNewError(r, found) ==
    IF found # Null THEN Return(r, found) ELSE Throw(r, "CacheMissError")

\* Lines 166-176: the fallback lookup completed with `found`.
AfterFallback(r, found) ==
    IF found # Null THEN Return(r, found) ELSE Throw(r, r.err)

\* response.ok: cached entries are stored OK responses.
ResponseOk(resp) == resp \in {Fresh, Stale}

\* Mutant of ProbeSlow: every probe classifies slow.
ProbeSlowAlways(ok, late) == TRUE

\* Lines 98-111: the probe's classification. TRUE means slow / cache first.
ProbeSlow(ok, late) == ~(ok /\ ~late)

\* The mode a fetch call reads at line 130.
CacheFirst == cacheFirstMode \/ isSlowConnection

\* A settled promise's continuation is a microtask: it runs before the next
\* task of the event loop. Quiet: no continuation is pending.
Quiet == \A c \in Calls : calls[c].pc # "done"

\* A slot is free once its call is over and its deadline timer is not pending.
Free(c) == calls[c].pc = "idle" /\ calls[c].timer # "armed"

\* The first free slot of a set of slots.
FirstFree(c, S) == c \in S /\ Free(c) /\ \A d \in S : d < c => ~Free(d)

\* ---------------------------------------------------------------- Init
\* The state after `new PoorNetworkHandler()`, before DOMContentLoaded (the
\* NetworkStatusIndicator is not constructed yet): init() has run
\* checkConnectionQuality (before fetch is replaced, so the first probe uses
\* the platform fetch directly), then checkConnectionType, then setupSmartFetch.
\* The Cache Store is filled by the service worker, outside this file: it is
\* empty (nothing installed yet) or holds the application's resources.
Init ==
    /\ onLine \in BOOLEAN
    /\ connection \in EffectiveTypes \cup {Null}
    /\ LET slow == IF connection # Null THEN connection \in slowConnections
                   ELSE ~onLine
       IN isSlowConnection = slow /\ cacheFirstMode = slow
    /\ cache \in {[u \in AppUrls |-> Null], [u \in AppUrls |-> Stale]}
    /\ calls = [c \in Calls |->
                  IF c = MaxCalls + 1 /\ onLine
                  THEN [IdleCall EXCEPT !.pc = "direct", !.owner = "probe",
                                        !.url = ManifestUrl]
                  ELSE IdleCall]
    /\ offlineSignalled = FALSE
    /\ forced = FALSE
    /\ indicator = Null
    /\ currentStatus = "unknown"
    /\ isVisible = FALSE
    /\ initTimers = 0
    /\ hideTimers = <<>>
    /\ superseded = {}

\* ------------------------------------------------------------- smart fetch
\* The application calls fetch(url).
AppFetch(c, url) ==
    /\ Quiet
    /\ FirstFree(c, AppCalls)
    /\ calls' = [calls EXCEPT ![c] =
                    SmartFetch(url, "app", cacheFirstMode, isSlowConnection)]
    /\ UNCHANGED <<isSlowConnection, cacheFirstMode, onLine, connection, cache,
                   offlineSignalled, forced>>
    /\ UNCHANGED indicatorVars
    /\ UNCHANGED superseded

\* await this.getCachedResponse(url) of line 132 completes.
CacheFirstDone(c, readFails) ==
    /\ Quiet
    /\ calls[c].pc = "cacheFirst"
    /\ calls' = [calls EXCEPT ![c] =
                    AfterCacheFirst(calls[c],
                                    getCachedResponse(calls[c].url, readFails))]
    /\ UNCHANGED <<isSlowConnection, cacheFirstMode, onLine, connection, cache,
                   offlineSignalled, forced>>
    /\ UNCHANGED indicatorVars
    /\ UNCHANGED superseded

\* The timed request of line 150 answers before the deadline.
NetRespond(c, resp) ==
    /\ Quiet
    /\ calls[c].pc = "network"
    /\ calls' = [calls EXCEPT ![c] = OnNetworkResponse(calls[c], resp)]
    /\ cache' = CacheAfterNetworkResponse(calls[c].url, resp)
    /\ UNCHANGED <<isSlowConnection, cacheFirstMode, onLine, connection,
                   offlineSignalled, forced>>
    /\ UNCHANGED indicatorVars
    /\ UNCHANGED superseded

\* Mutant of NetReject: a rejected request marks the connection slow.
NetRejectMarksSlow(c, e) ==
    /\ Quiet
    /\ calls[c].pc = "network"
    /\ calls' = [calls EXCEPT ![c] = OnNetworkError(calls[c], e)]
    /\ isSlowConnection' = TRUE
    /\ cacheFirstMode' = TRUE
    /\ UNCHANGED <<onLine, connection, cache, offlineSignalled, forced>>
    /\ UNCHANGED indicatorVars
    /\ UNCHANGED superseded

\* The timed request of line 150 rejects before the deadline.
NetReject(c, e) ==
    /\ Quiet
    /\ calls[c].pc = "network"
    /\ calls' = [calls EXCEPT ![c] = OnNetworkError(calls[c], e)]
    /\ UNCHANGED <<isSlowConnection, cacheFirstMode, onLine, connection, cache,
                   offlineSignalled, forced>>
    /\ UNCHANGED indicatorVars
    /\ UNCHANGED superseded

\* Mutant of DeadlineFire: one controller is shared, the abort reaches every
\* request in flight.
DeadlineFireAbortsAll(c) ==
    /\ Quiet
    /\ calls[c].timer = "armed"
    /\ calls[c].owner = "probe" => calls[c].late
    /\ calls' = [d \in Calls |->
                    LET r == IF d = c THEN [calls[d] EXCEPT !.timer = "none"]
                             ELSE calls[d]
                    IN IF r.pc = "network" THEN OnNetworkError(r, AbortError)
                       ELSE r]
    /\ UNCHANGED <<isSlowConnection, cacheFirstMode, onLine, connection, cache,
                   offlineSignalled, forced>>
    /\ UNCHANGED indicatorVars
    /\ UNCHANGED superseded

\* The setTimeout callback of lines 145-148 runs: controller.abort(). A
\* request still in flight rejects with AbortError; otherwise abort does
\* nothing. The deadline (3000 ms) of a probe's call comes after the
\* probe's latency ceiling (1000 ms).
DeadlineFire(c) ==
    /\ Quiet
    /\ calls[c].timer = "armed"
    /\ calls[c].owner = "probe" => calls[c].late
    /\ LET r == [calls[c] EXCEPT !.timer = "none"]
       IN calls' = [calls EXCEPT ![c] =
                       IF r.pc = "network" THEN OnNetworkError(r, AbortError)
                       ELSE r]
    /\ UNCHANGED <<isSlowConnection, cacheFirstMode, onLine, connection, cache,
                   offlineSignalled, forced>>
    /\ UNCHANGED indicatorVars
    /\ UNCHANGED superseded

\* await this.getCachedResponse(url) of line 166 completes.
FallbackDone(c, readFails) ==
    /\ Quiet
    /\ calls[c].pc = "fallback"
    /\ LET r == [calls[c] EXCEPT !.look2 = LookupOutcome(calls[c].url, readFails)]
       IN calls' = [calls EXCEPT ![c] =
                       AfterFallback(r, getCachedResponse(r.url, readFails))]
    /\ UNCHANGED <<isSlowConnection, cacheFirstMode, onLine, connection, cache,
                   offlineSignalled, forced>>
    /\ UNCHANGED indicatorVars
    /\ UNCHANGED superseded

\* The request of line 180 settles: its promise is what the call returns.
LastResortRespond(c, resp) ==
    /\ Quiet
    /\ calls[c].pc = "lastResort"
    /\ calls' = [calls EXCEPT ![c] = Return(calls[c], resp)]
    /\ UNCHANGED <<isSlowConnection, cacheFirstMode, onLine, connection, cache,
                   offlineSignalled, forced>>
    /\ UNCHANGED indicatorVars
    /\ UNCHANGED superseded

LastResortReject(c, e) ==
    /\ Quiet
    /\ calls[c].pc = "lastResort"
    /\ calls' = [calls EXCEPT ![c] = Throw(calls[c], e)]
    /\ UNCHANGED <<isSlowConnection, cacheFirstMode, onLine, connection, cache,
                   offlineSignalled, forced>>
    /\ UNCHANGED indicatorVars
    /\ UNCHANGED superseded

\* The request of line 124 settles.
PassthroughRespond(c, resp) ==
    /\ Quiet
    /\ calls[c].pc = "passthrough"
    /\ calls' = [calls EXCEPT ![c] = Return(calls[c], resp)]
    /\ UNCHANGED <<isSlowConnection, cacheFirstMode, onLine, connection, cache,
                   offlineSignalled, forced>>
    /\ UNCHANGED indicatorVars
    /\ UNCHANGED superseded

PassthroughReject(c, e) ==
    /\ Quiet
    /\ calls[c].pc = "passthrough"
    /\ calls' = [calls EXCEPT ![c] = Throw(calls[c], e)]
    /\ UNCHANGED <<isSlowConnection, cacheFirstMode, onLine, connection, cache,
                   offlineSignalled, forced>>
    /\ UNCHANGED indicatorVars
    /\ UNCHANGED superseded

\* The slot of a call that is over: only its deadline timer may remain.
Over(r) == [IdleCall EXCEPT !.timer = r.timer]

\* The application's await of fetch resumes with the response or the error
\* (as in fetchAndCacheWeatherData).
CallerContinue(c) ==
    /\ calls[c].pc = "done"
    /\ calls[c].owner = "app"
    /\ calls' = [calls EXCEPT ![c] = Over(calls[c])]
    /\ UNCHANGED <<isSlowConnection, cacheFirstMode, onLine, connection, cache,
                   offlineSignalled, forced>>
    /\ UNCHANGED indicatorVars
    /\ UNCHANGED superseded

\* ------------------------------------------------------------------ probes
\* checkConnectionQuality() up to its first await (lines 74-92), entered with
\* navigator.onLine = online and the flags (cfm, slow): offline sets both
\* flags; online starts a probe, whose fetch('./manifest.json') is the
\* replaced fetch. The probe's own timer (line 87, 1500 ms) aborts a signal
\* that lines 150-153 replace by the call's signal, so it stops nothing.
checkConnectionQuality(online, cfm, slow) ==
    IF ~online
    THEN /\ isSlowConnection' = TRUE
         /\ cacheFirstMode' = TRUE
         /\ UNCHANGED calls
    ELSE \E c \in ProbeCalls :
            /\ FirstFree(c, ProbeCalls)
            /\ calls' = [calls EXCEPT ![c] =
                            SmartFetch(ManifestUrl, "probe", cfm, slow)]
            /\ isSlowConnection' = slow
            /\ cacheFirstMode' = cfm

\* setInterval(() => this.checkConnectionQuality(), 30000)
TimerTick ==
    /\ Quiet
    /\ checkConnectionQuality(onLine, cacheFirstMode, isSlowConnection)
    /\ UNCHANGED <<onLine, connection, cache, offlineSignalled, forced>>
    /\ UNCHANGED indicatorVars
    /\ UNCHANGED superseded

\* 1000 ms pass since the probe's startTime.
ProbeTick(c) ==
    /\ Quiet
    /\ calls[c].owner = "probe"
    /\ calls[c].pc # "idle"
    /\ ~calls[c].late
    /\ calls' = [calls EXCEPT ![c].late = TRUE]
    /\ UNCHANGED <<isSlowConnection, cacheFirstMode, onLine, connection, cache,
                   offlineSignalled, forced>>
    /\ UNCHANGED indicatorVars
    /\ UNCHANGED superseded

\* The probe's fetch settled (lines 94-111): classify. A thrown error is
\* caught and classifies slow.
ProbeContinue(c) ==
    /\ calls[c].pc = "done"
    /\ calls[c].owner = "probe"
    /\ LET r == calls[c]
           slow == IF r.outcome = "returned"
                   THEN ProbeSlow(ResponseOk(r.value), r.late)
                   ELSE TRUE
       IN /\ isSlowConnection' = slow
          /\ cacheFirstMode' = slow
          /\ calls' = [calls EXCEPT ![c] = Over(r)]
    /\ UNCHANGED <<onLine, connection, cache, offlineSignalled, forced>>
    /\ UNCHANGED indicatorVars
    /\ UNCHANGED superseded

\* The constructor's probe used the platform fetch: its timer (1500 ms)
\* aborts the request, the await rejects, lines 107-111 run.
ProbeTimeoutDirect(c) ==
    /\ Quiet
    /\ calls[c].pc = "direct"
    /\ calls[c].late
    /\ calls' = [calls EXCEPT ![c] = IdleCall]
    /\ isSlowConnection' = TRUE
    /\ cacheFirstMode' = TRUE
    /\ UNCHANGED <<onLine, connection, cache, offlineSignalled, forced>>
    /\ UNCHANGED indicatorVars
    /\ UNCHANGED superseded

\* The constructor's probe is answered by the platform fetch (lines 94-106).
ProbeDirectRespond(c, resp) ==
    /\ Quiet
    /\ calls[c].pc = "direct"
    /\ LET slow == ProbeSlow(ResponseOk(resp), calls[c].late)
       IN /\ isSlowConnection' = slow
          /\ cacheFirstMode' = slow
    /\ calls' = [calls EXCEPT ![c] = IdleCall]
    /\ UNCHANGED <<onLine, connection, cache, offlineSignalled, forced>>
    /\ UNCHANGED indicatorVars
    /\ UNCHANGED superseded

\* The constructor's probe rejects (lines 107-111).
ProbeDirectReject(c) ==
    /\ Quiet
    /\ calls[c].pc = "direct"
    /\ isSlowConnection' = TRUE
    /\ cacheFirstMode' = TRUE
    /\ calls' = [calls EXCEPT ![c] = IdleCall]
    /\ UNCHANGED <<onLine, connection, cache, offlineSignalled, forced>>
    /\ UNCHANGED indicatorVars
    /\ UNCHANGED superseded

\* ------------------------------------------------- NetworkStatusIndicator
\* show() (lines 420-430) and hide() (lines 432-440): isVisible afterwards.
show == IF indicator' = Null THEN isVisible ELSE TRUE
hide == IF indicator' = Null \/ ~isVisible THEN isVisible ELSE FALSE

\* A publication takes the place of the one before it: no pending hide
\* timer is the timer of the current publication any more.
Superseded(timers) == [i \in 1..Len(timers) |-> FALSE]

\* Mutant of updateStatus: no early return on an unchanged status.
updateStatusAlways(status) ==
    /\ status = "good" => Len(hideTimers) < MaxTimers
    /\ currentStatus' = status
    /\ isVisible' = IF status \in {"offline", "slow", "good"} THEN show ELSE hide
    /\ hideTimers' = IF status = "good"
                     THEN Append(Superseded(hideTimers), TRUE)
                     ELSE Superseded(hideTimers)

\* updateStatus(status) (lines 375-418): return on an unchanged status;
\* else store it, show the indicator for 'offline', 'slow' and 'good', arm
\* the hide timer for 'good' (lines 402-406), and hide the indicator for any
\* other status (default branch).
updateStatus(status) ==
    IF currentStatus = status
    THEN UNCHANGED <<currentStatus, isVisible, hideTimers>>
    ELSE /\ status = "good" => Len(hideTimers) < MaxTimers
         /\ currentStatus' = status
         /\ isVisible' = IF status \in {"offline", "slow", "good"}
                         THEN show ELSE hide
         /\ hideTimers' = IF status = "good"
                          THEN Append(Superseded(hideTimers), TRUE)
                          ELSE Superseded(hideTimers)

\* checkInitialStatus() (lines 355-373): offline is published at once; online
\* arms the 2000 ms timer.
checkInitialStatus ==
    IF ~onLine
    THEN /\ updateStatus("offline")
         /\ UNCHANGED initTimers
    ELSE /\ initTimers < MaxTimers
         /\ initTimers' = initTimers + 1
         /\ UNCHANGED <<currentStatus, isVisible, hideTimers>>

\* DOMContentLoaded (lines 449-454): new NetworkStatusIndicator() runs the
\* constructor and init(): createIndicator, setupEventListeners,
\* checkInitialStatus.
DOMContentLoaded ==
    /\ Quiet
    /\ indicator = Null
    /\ indicator' = "div"
    /\ checkInitialStatus
    /\ UNCHANGED handlerVars

\* The indicator's listeners of 'online' and 'offline' (lines 333-339),
\* registered once the indicator is constructed.
IndicatorOnEvent(status) ==
    IF indicator = Null
    THEN UNCHANGED indicatorVars
    ELSE /\ UNCHANGED <<indicator, initTimers>>
         /\ updateStatus(status)

\* The 5000 ms interval of lines 344-351, reading getNetworkStatus().
PollTick ==
    /\ Quiet
    /\ indicator # Null
    /\ UNCHANGED <<indicator, initTimers>>
    /\ IF isSlowConnection /\ onLine
       THEN updateStatus("slow")
       ELSE IF onLine /\ ~isSlowConnection
            THEN updateStatus("good")
            ELSE UNCHANGED <<currentStatus, isVisible, hideTimers>>
    /\ UNCHANGED handlerVars

\* The 2000 ms timer of checkInitialStatus fires (lines 360-369).
InitialStatusTimer ==
    /\ Quiet
    /\ initTimers > 0
    /\ initTimers' = initTimers - 1
    /\ UNCHANGED indicator
    /\ updateStatus(IF isSlowConnection THEN "slow" ELSE "good")
    /\ UNCHANGED handlerVars

\* The oldest 3000 ms hide timer fires (lines 402-406).
HideTimer ==
    /\ Quiet
    /\ hideTimers # <<>>
    /\ hideTimers' = Tail(hideTimers)
    /\ UNCHANGED <<indicator, currentStatus, initTimers>>
    /\ isVisible' = IF currentStatus = "good" THEN hide ELSE isVisible
    /\ UNCHANGED handlerVars

\* refresh() (lines 443-445).
refresh ==
    /\ Quiet
    /\ indicator # Null
    /\ UNCHANGED indicator
    /\ checkInitialStatus
    /\ UNCHANGED handlerVars

\* ------------------------------------------------------- platform events
\* window 'online': the handler's listener (lines 35-40) and the indicator's.
GoOnline ==
    /\ Quiet
    /\ ~onLine
    /\ onLine' = TRUE
    /\ checkConnectionQuality(TRUE, FALSE, FALSE)
    /\ offlineSignalled' = FALSE
    /\ UNCHANGED <<connection, cache, forced>>
    /\ IndicatorOnEvent("online")
    /\ UNCHANGED superseded

\* window 'offline': the handler's listener (lines 42-46) and the indicator's.
GoOffline ==
    /\ Quiet
    /\ onLine
    /\ onLine' = FALSE
    /\ isSlowConnection' = TRUE
    /\ cacheFirstMode' = TRUE
    /\ offlineSignalled' = TRUE
    /\ UNCHANGED <<connection, cache, calls, forced>>
    /\ IndicatorOnEvent("offline")
    /\ UNCHANGED superseded

\* checkConnectionType() (lines 57-72) with effectiveType t.
checkConnectionType(t) ==
    /\ isSlowConnection' = (t \in slowConnections)
    /\ cacheFirstMode' = (t \in slowConnections)

\* navigator.connection 'change' (lines 50-52).
ConnectionChange(t) ==
    /\ Quiet
    /\ connection # Null
    /\ connection' = t
    /\ checkConnectionType(t)
    /\ UNCHANGED <<onLine, cache, calls, offlineSignalled, forced>>
    /\ UNCHANGED indicatorVars
    /\ UNCHANGED superseded

\* Mutant of enableCacheFirstMode: only cacheFirstMode is set.
enableCacheFirstModeOnly ==
    /\ Quiet
    /\ cacheFirstMode' = TRUE
    /\ forced' = TRUE
    /\ UNCHANGED <<isSlowConnection, onLine, connection, cache, calls,
                   offlineSignalled>>
    /\ UNCHANGED indicatorVars
    /\ UNCHANGED superseded

\* enableCacheFirstMode() (lines 196-200).
enableCacheFirstMode ==
    /\ Quiet
    /\ cacheFirstMode' = TRUE
    /\ isSlowConnection' = TRUE
    /\ forced' = TRUE
    /\ UNCHANGED <<onLine, connection, cache, calls, offlineSignalled>>
    /\ UNCHANGED indicatorVars
    /\ UNCHANGED superseded

\* disableCacheFirstMode() (lines 203-207).
disableCacheFirstMode ==
    /\ Quiet
    /\ cacheFirstMode' = FALSE
    /\ isSlowConnection' = FALSE
    /\ forced' = FALSE
    /\ UNCHANGED <<onLine, connection, cache, calls, offlineSignalled>>
    /\ UNCHANGED indicatorVars
    /\ UNCHANGED superseded

\* ------------------------------------------------------------ specification
Next ==
    \/ \E c \in AppCalls, url \in CallUrls : AppFetch(c, url)
    \/ \E c \in Calls, f \in BOOLEAN : CacheFirstDone(c, f)
    \/ \E c \in Calls, resp \in NetResponses : NetRespond(c, resp)
    \/ \E c \in Calls, e \in TransportErrors : NetReject(c, e)
    \/ \E c \in Calls : DeadlineFire(c)
    \/ \E c \in Calls, f \in BOOLEAN : FallbackDone(c, f)
    \/ \E c \in Calls, resp \in NetResponses : LastResortRespond(c, resp)
    \/ \E c \in Calls, e \in TransportErrors : LastResortReject(c, e)
    \/ \E c \in Calls, resp \in NetResponses : PassthroughRespond(c, resp)
    \/ \E c \in Calls, e \in TransportErrors : PassthroughReject(c, e)
    \/ \E c \in Calls : CallerContinue(c)
    \/ \E c \in Calls : ProbeContinue(c)
    \/ TimerTick
    \/ \E c \in Calls : ProbeTick(c)
    \/ \E c \in Calls : ProbeTimeoutDirect(c)
    \/ \E c \in Calls, resp \in NetResponses : ProbeDirectRespond(c, resp)
    \/ \E c \in Calls : ProbeDirectReject(c)
    \/ GoOnline
    \/ GoOffline
    \/ \E t \in EffectiveTypes : ConnectionChange(t)
    \/ enableCacheFirstMode
    \/ disableCacheFirstMode

Spec == Init /\ [][Next]_vars

\* Timers fire, time passes, cache reads complete and continuations run; the
\* network owes nothing.
Fairness ==
    \A c \in Calls :
        /\ WF_vars(DeadlineFire(c))
        /\ WF_vars(\E f \in BOOLEAN : CacheFirstDone(c, f))
        /\ WF_vars(\E f \in BOOLEAN : FallbackDone(c, f))
        /\ WF_vars(CallerContinue(c))
        /\ WF_vars(ProbeContinue(c))
        /\ WF_vars(ProbeTick(c))

FairSpec == Spec /\ Fairness

\* The page with its status indicator: the indicator is constructed at some
\* point and then follows the connectivity events, the handler's flag and
\* its own timers. The handler runs its probes and takes its events; the
\* application's own fetch calls, which the indicator never sees, are left
\* to Spec.
IndicatorNext ==
    \/ DOMContentLoaded
    \/ PollTick
    \/ InitialStatusTimer
    \/ HideTimer
    \/ refresh
    \/ GoOnline
    \/ GoOffline
    \/ \E t \in EffectiveTypes : ConnectionChange(t)
    \/ enableCacheFirstMode
    \/ disableCacheFirstMode
    \/ TimerTick
    \/ \E c \in ProbeCalls : ProbeTick(c)
    \/ \E c \in ProbeCalls : ProbeContinue(c)
    \/ \E c \in ProbeCalls : ProbeTimeoutDirect(c)
    \/ \E c \in ProbeCalls, resp \in NetResponses : ProbeDirectRespond(c, resp)
    \/ \E c \in ProbeCalls : ProbeDirectReject(c)
    \/ \E c \in ProbeCalls, f \in BOOLEAN : CacheFirstDone(c, f)
    \/ \E c \in ProbeCalls, resp \in NetResponses : NetRespond(c, resp)
    \/ \E c \in ProbeCalls, e \in TransportErrors : NetReject(c, e)
    \/ \E c \in ProbeCalls : DeadlineFire(c)
    \/ \E c \in ProbeCalls, f \in BOOLEAN : FallbackDone(c, f)
    \/ \E c \in ProbeCalls, resp \in NetResponses : LastResortRespond(c, resp)
    \/ \E c \in ProbeCalls, e \in TransportErrors : LastResortReject(c, e)

IndicatorSpec == Init /\ [][IndicatorNext]_vars

\* --------------------------------------------------------- probe overlap
\* A probe is in flight in slot c.
ProbeInFlight(c) == calls[c].owner = "probe" /\ calls[c].pc # "idle"

\* checkConnectionQuality() as above, in any free slot, recording which
\* probes the new one is younger than.
checkConnectionQualityTracked(online, cfm, slow) ==
    IF ~online
    THEN /\ isSlowConnection' = TRUE
         /\ cacheFirstMode' = TRUE
         /\ UNCHANGED <<calls, superseded>>
    ELSE \E c \in Calls :
            /\ FirstFree(c, Calls)
            /\ calls' = [calls EXCEPT ![c] =
                            SmartFetch(ManifestUrl, "probe", cfm, slow)]
            /\ isSlowConnection' = slow
            /\ cacheFirstMode' = cfm
            /\ superseded' = {d \in Calls \ {c} : ProbeInFlight(d)}

\* setInterval(() => this.checkConnectionQuality(), 30000). The
\* constructor's probe is over by then: its request is aborted after 1500 ms.
TimerTickTracked ==
    /\ Quiet
    /\ \A c \in Calls : calls[c].pc # "direct"
    /\ checkConnectionQualityTracked(onLine, cacheFirstMode, isSlowConnection)
    /\ UNCHANGED <<onLine, connection, cache, offlineSignalled, forced>>
    /\ UNCHANGED indicatorVars

\* window 'online' (lines 35-40).
GoOnlineTracked ==
    /\ Quiet
    /\ ~onLine
    /\ onLine' = TRUE
    /\ checkConnectionQualityTracked(TRUE, FALSE, FALSE)
    /\ offlineSignalled' = FALSE
    /\ UNCHANGED <<connection, cache, forced>>
    /\ IndicatorOnEvent("online")

\* The probes alone: every slot is open to a probe, so that probes started
\* by the 30 s interval and by online events overlap; the start order is
\* recorded. The other writers of the flags besides the connectivity events
\* are left to Spec.
ProbeNext ==
    \/ TimerTickTracked
    \/ GoOnlineTracked
    \/ GoOffline
    \/ \E c \in Calls : ProbeTick(c)
    \/ \E c \in Calls : ProbeContinue(c)
    \/ \E c \in Calls : ProbeTimeoutDirect(c)
    \/ \E c \in Calls, resp \in NetResponses : ProbeDirectRespond(c, resp)
    \/ \E c \in Calls : ProbeDirectReject(c)
    \/ \E c \in Calls, f \in BOOLEAN : CacheFirstDone(c, f)
    \/ \E c \in Calls, resp \in NetResponses : NetRespond(c, resp)
    \/ \E c \in Calls, e \in TransportErrors : NetReject(c, e)
    \/ \E c \in Calls : DeadlineFire(c)
    \/ \E c \in Calls, f \in BOOLEAN : FallbackDone(c, f)
    \/ \E c \in Calls, resp \in NetResponses : LastResortRespond(c, resp)
    \/ \E c \in Calls, e \in TransportErrors : LastResortReject(c, e)

ProbeSpec == Init /\ [][ProbeNext]_vars

\* ------------------------------------------------------------------ claims
SameOrigin(c) == calls[c].url \in AppUrls

\* C1: a same-origin fetch made in cache-first mode starts with the cache
\* lookup and issues no request; when that lookup finds the entry the store
\* holds for the url, the call returns this entry, still with no request issued.
C1_CacheFirstHit ==
    /\ [](\A c \in Calls : calls[c].pc = "cacheFirst" => calls[c].netCalls = 0)
    /\ [][\A c \in Calls :
            /\ \A url \in AppUrls :
                  (calls'[c].url = url /\ AppFetch(c, url) /\ CacheFirst)
                      => calls'[c].pc = "cacheFirst"
            /\ (CacheFirstDone(c, FALSE) /\ cache[calls[c].url] # Null)
                  => /\ calls'[c].pc = "done"
                     /\ calls'[c].outcome = "returned"
                     /\ calls'[c].value = cache[calls[c].url]
                     /\ calls'[c].netCalls = 0]_vars

C1_Witness ==
    \E c \in AppCalls :
        /\ calls[c].pc = "done"
        /\ calls[c].via = "cacheFirst"
        /\ calls[c].url = DataUrl
        /\ calls[c].value = Stale
        /\ calls[c].netCalls = 0

C3_FallbackAfterFailure ==
    \A c \in Calls :
        /\ calls[c].err # Null
              => \/ calls[c].pc = "fallback"
                 \/ calls[c].pc = "done" /\ calls[c].via = "fallback"
                                         /\ calls[c].look2 # "none"
        /\ (calls[c].pc = "done" /\ calls[c].via = "fallback"
                /\ calls[c].look2 = "hit")
              => /\ cache[calls[c].url] # Null
                 /\ calls[c].outcome = "returned"
                 /\ calls[c].value = cache[calls[c].url]

C3_Witness ==
    \E c \in AppCalls :
        /\ calls[c].pc = "done"
        /\ calls[c].err = AbortError
        /\ calls[c].look2 = "hit"
        /\ calls[c].outcome = "returned"
        /\ calls[c].value = Stale

\* C4 (as stated): every same-origin call of the application in flight
\* eventually settles, whatever the network does.
C4_EveryCallSettles ==
    \A c \in AppCalls :
        (calls[c].pc \in {"cacheFirst", "network", "fallback", "lastResort"})
            ~> (calls[c].pc = "done")

\* C5 (as stated): a same-origin call of the application that surfaces a
\* failure has tried the network exactly once and consulted the cache as the
\* fallback.
C5_OtherPathOnce ==
    \A c \in AppCalls :
        (calls[c].pc = "done" /\ SameOrigin(c) /\ calls[c].outcome = "threw")
            => (calls[c].netCalls = 1 /\ calls[c].look2 # "none")

\* C6 (as stated): a call of the application hands at most one request to
\* the platform fetch.
C6_OneRequest ==
    \A c \in AppCalls : calls[c].netCalls <= 1

\* C7: when the timed request rejected with a transport error and the
\* fallback lookup missed or failed, the call throws that same error.
C7_SameError ==
    \A c \in Calls :
        (calls[c].pc = "done" /\ calls[c].via = "fallback"
            /\ calls[c].err \in TransportErrors
            /\ calls[c].look2 \in {"miss", "error"})
            => (calls[c].outcome = "threw" /\ calls[c].value = calls[c].err)

C7_Witness ==
    \E c \in AppCalls :
        /\ calls[c].pc = "done"
        /\ calls[c].err \in TransportErrors
        /\ calls[c].look2 = "miss"
        /\ calls[c].outcome = "threw"
        /\ calls[c].value = calls[c].err

\* C8 (as stated): a call of the application that has finished has no
\* deadline timer pending.
C8_TimerReleased ==
    \A c \in AppCalls : calls[c].pc \in {"done", "idle"} => calls[c].timer # "armed"

\* C9 (as stated): after the offline signal and while still offline, no
\* event (the manual release aside) takes the mode out of cache-first.
C9_OfflineKeepsCacheFirst ==
    [][(offlineSignalled /\ offlineSignalled' /\ CacheFirst
            /\ ~disableCacheFirstMode) => CacheFirst']_vars

\* C10 (as stated): between enableCacheFirstMode() and
\* disableCacheFirstMode() the mode a fetch call reads is cache-first.
C10_ForcedStays == forced => CacheFirst

\* C11 (as stated): a probe whose fetch met a timeout or a network error
\* classifies slow, and a probe classifies good only on a response the
\* network gave, never on an entry of the Cache Store.
C11_GoodOnlyFromNetwork ==
    [][\A c \in ProbeCalls :
          ProbeContinue(c) =>
              /\ calls[c].err # Null => CacheFirst'
              /\ ~CacheFirst' => calls[c].value = Fresh]_vars

\* C15: the online transition clears the flags at once and starts a probe at
\* its network stage; a probe whose request the network answered OK within
\* the latency ceiling leaves the mode network-first when it completes,
\* whatever set the flags in between.
C15_OnlineRestoresNetworkFirst ==
    [][/\ GoOnline
            => /\ ~CacheFirst'
               /\ \E c \in ProbeCalls : /\ calls[c].pc = "idle"
                                        /\ calls'[c].pc = "network"
                                        /\ ~calls'[c].late
       /\ \A c \in ProbeCalls :
            (ProbeContinue(c) /\ calls[c].via = "network"
                /\ calls[c].value = Fresh /\ ~calls[c].late)
                => ~CacheFirst']_vars

C15_Witness ==
    \E c \in ProbeCalls :
        /\ onLine
        /\ CacheFirst
        /\ calls[c].pc = "done"
        /\ calls[c].via = "network"
        /\ calls[c].value = Fresh
        /\ ~calls[c].late

\* C16: a call for the weather API url (third party) is handed to the
\* platform fetch once, in every mode: it never stands at a cache lookup, a
\* timed request or a fallback, has no deadline timer and no caught error,
\* and settles with what the platform fetch gave.
C16_ExternalPassesThrough ==
    \A c \in Calls :
        calls[c].url = WeatherUrl
            => /\ calls[c].pc \in {"passthrough", "done"}
               /\ calls[c].timer = "none"
               /\ calls[c].netCalls = 1
               /\ calls[c].err = Null
               /\ calls[c].look2 = "none"
               /\ calls[c].pc = "done"
                    => /\ calls[c].via = "passthrough"
                       /\ calls[c].value \in NetResponses \cup TransportErrors

C16_Witness ==
    \E c \in AppCalls :
        /\ CacheFirst
        /\ calls[c].url = WeatherUrl
        /\ calls[c].pc = "done"
        /\ calls[c].via = "passthrough"
        /\ calls[c].value = Fresh

\* C17: a same-origin call made while the mode is network-first starts with
\* the timed request (one request issued, no lookup made); a call enters the
\* cache-first lookup only when made in cache-first mode; the fallback lookup
\* starts only from the timed request, on its rejection or its deadline; and
\* a call that returns a cached entry after a request was issued holds the
\* error of that request.
C17_NetworkBeforeCache ==
    /\ [][\A c \in Calls :
            /\ \A url \in AppUrls :
                  (calls'[c].url = url /\ AppFetch(c, url) /\ ~CacheFirst)
                      => (calls'[c].pc = "network" /\ calls'[c].netCalls = 1)
            /\ (calls[c].pc # "cacheFirst" /\ calls'[c].pc = "cacheFirst")
                  => (CacheFirst /\ calls[c].pc = "idle")
            /\ (calls[c].pc # "fallback" /\ calls'[c].pc = "fallback")
                  => /\ calls[c].pc = "network"
                     /\ calls'[c].err \in TransportErrors \cup {AbortError}]_vars
    /\ [](\A c \in Calls :
            (calls[c].pc = "done" /\ calls[c].value = Stale
                /\ calls[c].netCalls > 0)
                => (calls[c].via = "fallback" /\ calls[c].err # Null))

C17_Witness ==
    \E c \in AppCalls :
        /\ ~CacheFirst
        /\ calls[c].pc = "done"
        /\ calls[c].via = "fallback"
        /\ calls[c].netCalls = 1
        /\ calls[c].err = AbortError
        /\ calls[c].value = Stale

\* C18: a Cache Store read that fails acts as a miss: at the cache-first
\* lookup the call goes on to its timed request (as it does on a miss), at
\* the fallback lookup the call throws the error of its request, and a call
\* settled by a failed fallback read never carries anything else, even when
\* the store holds an entry for the url.
C18_ReadFailureIsMiss ==
    /\ [][\A c \in Calls :
            /\ CacheFirstDone(c, TRUE)
                  => calls'[c] = NetworkStage(calls[c])
            /\ FallbackDone(c, TRUE)
                  => /\ calls'[c].pc = "done"
                     /\ calls'[c].outcome = "threw"
                     /\ calls'[c].value = calls[c].err]_vars
    /\ [](\A c \in Calls :
            (calls[c].pc = "done" /\ calls[c].look2 = "error")
                => /\ calls[c].outcome = "threw"
                   /\ calls[c].value = calls[c].err
                   /\ calls[c].err \in TransportErrors \cup {AbortError})

C18_Witness ==
    \E c \in AppCalls :
        /\ calls[c].pc = "done"
        /\ calls[c].look2 = "error"
        /\ cache[calls[c].url] = Stale
        /\ calls[c].outcome = "threw"
        /\ calls[c].value = calls[c].err

\* C19: with several calls in flight, a step that changes the record of one
\* call (in particular the deadline or the rejection of its request, which
\* moves it from the timed request to its fallback lookup, holding the
\* error) leaves the record of every other call as it was.
C19_CallsIndependent ==
    [][\A c \in Calls :
          calls'[c] # calls[c]
              => /\ \A d \in Calls \ {c} : calls'[d] = calls[d]
                 /\ (calls[c].pc = "network" /\ calls'[c].err # Null)
                      => /\ calls'[c].pc = "fallback"
                         /\ calls'[c].err \in TransportErrors \cup {AbortError}]_vars

C19_Witness ==
    \E c, d \in Calls :
        /\ c # d
        /\ calls[c].pc = "fallback"
        /\ calls[c].err = AbortError
        /\ calls[d].pc = "network"
        /\ calls[d].timer = "armed"
        /\ calls[d].err = Null

\* C12: the indicator publishes only on a change of status: a step that
\* leaves currentStatus as it was shows nothing and arms no hide timer
\* (whatever asked for the status again: an event, the poll, the timer of
\* refresh()), and a step that changes it to 'good' shows the indicator and
\* arms exactly one hide timer.
C12_PublishOnChangeOnly ==
    [][/\ currentStatus' = currentStatus
            => /\ isVisible' => isVisible
               /\ Len(hideTimers') <= Len(hideTimers)
       /\ (currentStatus' # currentStatus /\ currentStatus' = "good")
            => /\ isVisible'
               /\ Len(hideTimers') = Len(hideTimers) + 1]_vars

\* The status is 'good', its indication was hidden after the grace period,
\* and the poll is about to ask for 'good' again.
C12_Witness ==
    /\ indicator # Null
    /\ currentStatus = "good"
    /\ ~isVisible
    /\ hideTimers = <<>>
    /\ onLine
    /\ ~isSlowConnection
    /\ Quiet

\* C13 (as stated): the indicator's current status is always one of offline,
\* slow, good and unknown.
C13_StatusInRange ==
    currentStatus \in {"offline", "slow", "good", "unknown"}

\* C14 (as stated): while the platform stays offline, a status of 'offline'
\* is not replaced by 'slow' or 'good'.
C14_OfflineUntilOnline ==
    [][(currentStatus = "offline" /\ ~onLine /\ ~onLine')
            => currentStatus' \notin {"slow", "good"}]_vars

\* C20 (as stated): while the hide timer of the current 'good' publication
\* is pending (its grace period is not over), the indicator is shown.
C20_GoodShownForGracePeriod ==
    (currentStatus = "good" /\ hideTimers # <<>>
        /\ hideTimers[Len(hideTimers)])
        => isVisible

\* C21: no step of an application fetch call (its start, cache hit, network
\* answer, rejection, deadline, fallback, last resort, settling) changes
\* isSlowConnection or cacheFirstMode.
C21_CallsLeaveFlags ==
    [][\A c \in AppCalls :
          calls'[c] # calls[c]
              => /\ isSlowConnection' = isSlowConnection
                 /\ cacheFirstMode' = cacheFirstMode]_vars

\* The mode is still network-first although an application call has just
\* met its final failure (request failed, fallback missed).
C21_Witness ==
    \E c \in AppCalls :
        /\ ~isSlowConnection
        /\ ~cacheFirstMode
        /\ calls[c].pc = "done"
        /\ calls[c].outcome = "threw"
        /\ calls[c].look2 = "miss"

\* C22: isSlowConnection and cacheFirstMode are equal in every state, so
\* getNetworkStatus() never reports them disagreeing.
C22_FlagsAgree == isSlowConnection = cacheFirstMode

\* Both flags set by the manual override while the platform is online.
C22_Witness ==
    /\ forced
    /\ onLine
    /\ isSlowConnection
    /\ cacheFirstMode

\* C23 (as stated): a probe that completes after a probe started later than
\* it has completed (no probe in flight is the one started last) leaves the
\* classification as it is.
C23_LastStartedWins ==
    [][\A c \in Calls :
          (/\ ProbeInFlight(c)
           /\ calls'[c].pc = "idle"
           /\ c \in superseded
           /\ \A d \in Calls \ {c} : ProbeInFlight(d) => d \in superseded)
              => /\ isSlowConnection' = isSlowConnection
                 /\ cacheFirstMode' = cacheFirstMode]_vars

\* The hide timer of the current 'good' publication is still pending.
GracePending == hideTimers # <<>> /\ hideTimers[Len(hideTimers)]

\* C24 (as stated): a status of 'offline' or 'slow' is shown, and the
\* indicator is hidden only with a status of 'unknown', of 'good' once its
\* grace period is over, or of a value that has no case in updateStatus.
C24_HiddenOnlyWhenAllowed ==
    /\ currentStatus \in {"offline", "slow"} => isVisible
    /\ ~isVisible
          => \/ currentStatus \notin {"offline", "slow", "good"}
             \/ currentStatus = "good" /\ ~GracePending

====
